---- MODULE Spec2Model ----
(***************************************************************************)
(* Model of src/App.tsx: the upload -> validate -> request -> render       *)
(* workflow of the App component.                                          *)
(*                                                                         *)
(* Strings that the code takes apart or puts together (prompt, media type, *)
(* data URL, base64 payload) are sequences of pieces; a piece is either a  *)
(* single whitespace character, the separator ",", or a run of text that   *)
(* contains neither.  Messages that are only stored and shown are plain    *)
(* strings.  A nullable value is None or Some(x).                          *)
(*                                                                         *)
(* The runtime is a single-threaded event loop: each action is one handler *)
(* run from an event (or from the resumption of an await) to its next      *)
(* await or its end, followed by the render of the state it set.           *)
(***************************************************************************)
EXTENDS Integers, Sequences, FiniteSets, TLC

\* ---------------------------------------------------------------- bounds
MaxPromptLen == 2
MaxReads == 2
MaxCalls == 2

\* ---------------------------------------------------------------- values
None == <<>>
Some(x) == <<x>>

RemoveAt(s, i) == SubSeq(s, 1, i - 1) \o SubSeq(s, i + 1, Len(s))

\* App.tsx:65, the initial prompt (one run of text: it starts with "From"
\* and ends with "people.")
DefaultPrompt == <<"From the uploaded image, please accurately isolate all human subjects and place them onto a uniform, neutral background. The output should be a new image featuring only the clear, high-resolution cutouts of the people.">>

PromptChars == {" ", "a"}

Prompts == UNION {[1..n -> PromptChars] : n \in 0..MaxPromptLen}

IsWhitespace(c) == c \in {" ", "\t", "\n"}

\* String.prototype.trim
RECURSIVE TrimStart(_)
TrimStart(s) ==
  IF s = <<>> THEN <<>>
  ELSE IF IsWhitespace(Head(s)) THEN TrimStart(Tail(s)) ELSE s

RECURSIVE TrimEnd(_)
TrimEnd(s) ==
  IF s = <<>> THEN <<>>
  ELSE IF IsWhitespace(s[Len(s)]) THEN TrimEnd(SubSeq(s, 1, Len(s) - 1)) ELSE s

Trim(s) == TrimEnd(TrimStart(s))

\* String.prototype.startsWith
StartsWith(s, prefix) ==
  /\ Len(s) >= Len(prefix)
  /\ SubSeq(s, 1, Len(prefix)) = prefix

\* String.prototype.split on a one-piece separator: the pieces between
\* the separators, in order
RECURSIVE SplitAcc(_, _, _)
SplitAcc(s, sep, cur) ==
  IF s = <<>> THEN <<cur>>
  ELSE IF Head(s) = sep THEN <<cur>> \o SplitAcc(Tail(s), sep, <<>>)
  ELSE SplitAcc(Tail(s), sep, Append(cur, Head(s)))

Split(s, sep) == SplitAcc(s, sep, <<>>)

\* The files the user can pick: name, declared type, and the base64 text
\* of the bytes
Files ==
  { [name |-> "photo.png", type |-> <<"image/", "png">>,  bytes64 |-> <<"iVBO">>],
    [name |-> "pic.jpg",   type |-> <<"image/", "jpeg">>, bytes64 |-> <<"/9j/">>],
    [name |-> "notes.txt", type |-> <<"text/", "plain">>, bytes64 |-> <<"aGk=">>] }

\* e.target.files?.[0]: a file, or nothing
Selections == {None} \cup {Some(f) : f \in Files}

\* What the edit service can answer
ResultPayloads == { <<"abcd1234">>, <<"AAAA">> }
FailureMessages == { "Quota exceeded" }

\* FileReader.readAsDataURL
ReadAsDataURL(file) == <<"data:">> \o file.type \o <<";base64", ",">> \o file.bytes64

FileToBase64Result_Prefix(file) == Split(ReadAsDataURL(file), ",")[1]

\* App.tsx:9, what fileToBase64 resolves with
FileToBase64Result(file) == Split(ReadAsDataURL(file), ",")[2]

ComposeDataUri_NoComma(mediaType, resultBase64) ==
  <<"data:">> \o mediaType \o <<";base64">> \o resultBase64

\* App.tsx:105, the template literal
ComposeDataUri(mediaType, resultBase64) ==
  <<"data:">> \o mediaType \o <<";base64", ",">> \o resultBase64

VARIABLES
  originalImage,  \* None or Some([file, base64])
  editedImage,    \* None or Some(data URI)
  prompt,         \* string
  isLoading,      \* BOOLEAN
  error,          \* None or Some(message)
  reads,          \* fileToBase64 promises not yet settled, oldest first
  calls,          \* editImageWithPrompt promises not yet settled
  lastEvent,      \* history: the handler step taken last
  lastPicked,     \* history: None or Some(the image file the user chose last)
  lastRequest     \* history: "none", or how the request sent last stands

vars == <<originalImage, editedImage, prompt, isLoading, error, reads, calls,
          lastEvent, lastPicked, lastRequest>>

Init ==
  /\ originalImage = None
  /\ editedImage = None
  /\ prompt = DefaultPrompt
  /\ isLoading = FALSE
  /\ error = None
  /\ reads = <<>>
  /\ calls = <<>>
  /\ lastEvent = [kind |-> "init", arg |-> None]
  /\ lastPicked = None
  /\ lastRequest = "none"

\* ---------------------------------------------------------------- render
GenerateDisabled_ImageOnly == originalImage = None

\* App.tsx:148
GenerateDisabled == isLoading \/ originalImage = None

PromptDisabled_Never == FALSE

\* App.tsx:142
PromptDisabled == isLoading

\* ---------------------------------------------------------------- upload
IsImageSelection_AnyFile(sel) == sel # None

\* App.tsx:71, file && file.type.startsWith('image/')
IsImageSelection(sel) == sel # None /\ StartsWith(sel[1].type, <<"image/">>)

\* handleImageUpload, else branch
UploadRejected(sel) ==
  /\ ~IsImageSelection(sel)
  /\ error' = Some("Please select a valid image file.")
  /\ lastEvent' = [kind |-> "upload", arg |-> sel]
  /\ UNCHANGED <<originalImage, editedImage, prompt, isLoading, reads, calls, lastPicked, lastRequest>>

\* handleImageUpload up to the await of fileToBase64
UploadStarted(sel) ==
  /\ IsImageSelection(sel)
  /\ Len(reads) < MaxReads
  /\ reads' = Append(reads, sel[1])
  /\ lastPicked' = sel
  /\ lastEvent' = [kind |-> "upload", arg |-> sel]
  /\ UNCHANGED <<originalImage, editedImage, prompt, isLoading, error, calls, lastRequest>>

ReadSucceeded_EndsLoading(i) ==
  /\ i \in 1..Len(reads)
  /\ originalImage' = Some([file |-> reads[i], base64 |-> FileToBase64Result(reads[i])])
  /\ editedImage' = None
  /\ error' = None
  /\ isLoading' = FALSE
  /\ reads' = RemoveAt(reads, i)
  /\ lastEvent' = [kind |-> "readSucceeded", arg |-> Some(reads[i])]
  /\ UNCHANGED <<prompt, calls, lastPicked, lastRequest>>

\* reader.onload, then handleImageUpload after the await
ReadSucceeded(i) ==
  /\ i \in 1..Len(reads)
  /\ originalImage' = Some([file |-> reads[i], base64 |-> FileToBase64Result(reads[i])])
  /\ editedImage' = None
  /\ error' = None
  /\ reads' = RemoveAt(reads, i)
  /\ lastEvent' = [kind |-> "readSucceeded", arg |-> Some(reads[i])]
  /\ UNCHANGED <<prompt, isLoading, calls, lastPicked, lastRequest>>

ReadFailed_Resets(i) ==
  /\ i \in 1..Len(reads)
  /\ error' = Some("Failed to read the image file.")
  /\ editedImage' = None
  /\ reads' = RemoveAt(reads, i)
  /\ lastEvent' = [kind |-> "readFailed", arg |-> Some(reads[i])]
  /\ UNCHANGED <<originalImage, prompt, isLoading, calls, lastPicked, lastRequest>>

ReadFailed_ClearsImage(i) ==
  /\ i \in 1..Len(reads)
  /\ error' = Some("Failed to read the image file.")
  /\ originalImage' = None
  /\ reads' = RemoveAt(reads, i)
  /\ lastEvent' = [kind |-> "readFailed", arg |-> Some(reads[i])]
  /\ UNCHANGED <<editedImage, prompt, isLoading, calls, lastPicked, lastRequest>>

\* reader.onerror, then the catch of handleImageUpload
ReadFailed(i) ==
  /\ i \in 1..Len(reads)
  /\ error' = Some("Failed to read the image file.")
  /\ reads' = RemoveAt(reads, i)
  /\ lastEvent' = [kind |-> "readFailed", arg |-> Some(reads[i])]
  /\ UNCHANGED <<originalImage, editedImage, prompt, isLoading, calls, lastPicked, lastRequest>>

\* ---------------------------------------------------------------- prompt
\* onChange of the textarea
SetPrompt(p) ==
  /\ ~PromptDisabled
  /\ prompt' = p
  /\ lastEvent' = [kind |-> "promptEdited", arg |-> None]
  /\ UNCHANGED <<originalImage, editedImage, isLoading, error, reads, calls, lastPicked, lastRequest>>

\* -------------------------------------------------------------- generate
EditRequest_Trimmed(image, text) ==
  [base64 |-> image.base64, mediaType |-> image.file.type, prompt |-> Trim(text)]

\* App.tsx:100-104, the arguments of editImageWithPrompt
EditRequest(image, text) ==
  [base64 |-> image.base64, mediaType |-> image.file.type, prompt |-> text]

GenerateNoImage_ClearsPrompt ==
  /\ error' = Some("Please upload an image first.")
  /\ prompt' = <<>>
  /\ lastEvent' = [kind |-> "generate", arg |-> None]
  /\ UNCHANGED <<originalImage, editedImage, isLoading, reads, calls, lastPicked, lastRequest>>

\* App.tsx:87-88
GenerateNoImage ==
  /\ error' = Some("Please upload an image first.")
  /\ lastEvent' = [kind |-> "generate", arg |-> None]
  /\ UNCHANGED <<originalImage, editedImage, prompt, isLoading, reads, calls, lastPicked, lastRequest>>

\* App.tsx:91-92
GenerateNoPrompt ==
  /\ error' = Some("Please enter an editing prompt.")
  /\ lastEvent' = [kind |-> "generate", arg |-> None]
  /\ UNCHANGED <<originalImage, editedImage, prompt, isLoading, reads, calls, lastPicked, lastRequest>>

GenerateSend_KeepsResult ==
  /\ Len(calls) < MaxCalls
  /\ isLoading' = TRUE
  /\ error' = None
  /\ calls' = Append(calls, EditRequest(originalImage[1], prompt))
  /\ lastRequest' = "pending"
  /\ lastEvent' = [kind |-> "generate", arg |-> None]
  /\ UNCHANGED <<originalImage, editedImage, prompt, reads, lastPicked>>

GenerateSend_KeepsError ==
  /\ Len(calls) < MaxCalls
  /\ isLoading' = TRUE
  /\ editedImage' = None
  /\ calls' = Append(calls, EditRequest(originalImage[1], prompt))
  /\ lastRequest' = "pending"
  /\ lastEvent' = [kind |-> "generate", arg |-> None]
  /\ UNCHANGED <<originalImage, error, prompt, reads, lastPicked>>

\* App.tsx:95-104, up to the await
GenerateSend ==
  /\ Len(calls) < MaxCalls
  /\ isLoading' = TRUE
  /\ error' = None
  /\ editedImage' = None
  /\ calls' = Append(calls, EditRequest(originalImage[1], prompt))
  /\ lastRequest' = "pending"
  /\ lastEvent' = [kind |-> "generate", arg |-> None]
  /\ UNCHANGED <<originalImage, prompt, reads, lastPicked>>

IsBlank_EmptyOnly(text) == text = <<>>

\* App.tsx:90, !prompt.trim()
IsBlank(text) == Trim(text) = <<>>

\* handleGenerateClick up to the await of editImageWithPrompt
handleGenerateClick ==
  IF originalImage = None THEN GenerateNoImage
  ELSE IF IsBlank(prompt) THEN GenerateNoPrompt
  ELSE GenerateSend

\* a click on the Generate button
GenerateClick ==
  /\ ~GenerateDisabled
  /\ handleGenerateClick

\* handleGenerateClick called with no image stored, where the disabled
\* button lets no click through
GenerateDirect ==
  /\ originalImage = None
  /\ handleGenerateClick

\* editImageWithPrompt resolves; handleGenerateClick after the await
CallSucceeded(i, resultBase64) ==
  /\ i \in 1..Len(calls)
  /\ editedImage' = Some(ComposeDataUri(calls[i].mediaType, resultBase64))
  /\ isLoading' = FALSE
  /\ calls' = RemoveAt(calls, i)
  /\ lastRequest' = "succeeded"
  /\ lastEvent' = [kind |-> "callSucceeded", arg |-> Some(resultBase64)]
  /\ UNCHANGED <<originalImage, prompt, error, reads, lastPicked>>

CallFailed_NoFinally(i, err) ==
  /\ i \in 1..Len(calls)
  /\ error' = Some(err)
  /\ calls' = RemoveAt(calls, i)
  /\ lastRequest' = "failed"
  /\ lastEvent' = [kind |-> "callFailed", arg |-> Some(err)]
  /\ UNCHANGED <<originalImage, editedImage, prompt, isLoading, reads, lastPicked>>

\* set at the catch: what setError receives
CaughtError_Generic(err) == "Something went wrong."

\* App.tsx:107, err as string
CaughtError(err) == err

\* editImageWithPrompt rejects; catch and finally of handleGenerateClick
CallFailed(i, err) ==
  /\ i \in 1..Len(calls)
  /\ error' = Some(CaughtError(err))
  /\ isLoading' = FALSE
  /\ calls' = RemoveAt(calls, i)
  /\ lastRequest' = "failed"
  /\ lastEvent' = [kind |-> "callFailed", arg |-> Some(err)]
  /\ UNCHANGED <<originalImage, editedImage, prompt, reads, lastPicked>>

\* ------------------------------------------------------------------ spec
Next ==
  \/ \E sel \in Selections : UploadRejected(sel)
  \/ \E sel \in Selections : UploadStarted(sel)
  \/ \E i \in 1..MaxReads : ReadSucceeded(i)
  \/ \E i \in 1..MaxReads : ReadFailed(i)
  \/ \E p \in Prompts : SetPrompt(p)
  \/ GenerateClick
  \/ \E i \in 1..MaxCalls, r \in ResultPayloads : CallSucceeded(i, r)
  \/ \E i \in 1..MaxCalls, m \in FailureMessages : CallFailed(i, m)

Spec == Init /\ [][Next]_vars

\* The handler also called where the button would not let a click through
NextHandler == Next \/ GenerateDirect

SpecHandler == Init /\ [][NextHandler]_vars

\* The pending promise of editImageWithPrompt settles
CallResolves ==
  \E i \in 1..MaxCalls :
    \/ \E r \in ResultPayloads : CallSucceeded(i, r)
    \/ \E m \in FailureMessages : CallFailed(i, m)

\* A pending promise of fileToBase64 settles
ReadResolves ==
  \E i \in 1..MaxReads : ReadSucceeded(i) \/ ReadFailed(i)

\* Every request and every read settles in the end
SpecFair == Init /\ [][Next]_vars /\ WF_vars(CallResolves) /\ WF_vars(ReadResolves)

\* ---------------------------------------------------------------- claims
\* the step just taken, read from the history variable
GenerateInvoked == lastEvent'.kind = "generate"
UploadInvoked == lastEvent'.kind = "upload"

\* a string with nothing but whitespace in it
AllWhitespace(text) == \A k \in 1..Len(text) : IsWhitespace(text[k])

\* calls' is calls with exactly one new request, built from the state before
InvokedOnceWith(text) ==
  /\ originalImage # None
  /\ calls' = Append(calls, [base64 |-> originalImage[1].base64,
                             mediaType |-> originalImage[1].file.type,
                             prompt |-> text])

\* no request is added by the step
NoInvocation == \/ calls' = calls
                \/ \E i \in 1..Len(calls) : calls' = RemoveAt(calls, i)

ValidGenerate == GenerateInvoked /\ originalImage # None /\ ~AllWhitespace(prompt)

\* C1 as stated: a valid Generate invokes the collaborator exactly once with
\* the stored payload, its media type and the TRIMMED prompt, and no other
\* step invokes it.
C1_AsStated ==
  [][/\ ValidGenerate => InvokedOnceWith(Trim(prompt))
     /\ ~ValidGenerate => NoInvocation]_vars

\* C1 amended: a valid Generate invokes the collaborator exactly once with
\* the stored payload, its media type and the prompt text exactly as stored
\* (untrimmed); every other step, the resolution of a request included,
\* invokes nothing.
C1_Theorem ==
  [][/\ ValidGenerate => InvokedOnceWith(prompt)
     /\ ~ValidGenerate => NoInvocation]_vars

C1_Witness ==
  /\ lastEvent.kind = "generate"
  /\ Len(calls) = 1
  /\ calls[1].prompt = <<" ", "a">>
  /\ calls[1].base64 = <<"iVBO">>
  /\ calls[1].mediaType = <<"image/", "png">>

\* C2: the Generate control is disabled whenever Loading is true or no image
\* is stored, and at most one edit request is in flight in every reachable
\* state.
C2_Theorem ==
  /\ (isLoading \/ originalImage = None) => GenerateDisabled
  /\ Len(calls) <= 1

C2_Witness ==
  /\ Len(calls) = 1
  /\ lastEvent.kind = "readSucceeded"
  /\ reads # <<>>
  /\ GenerateDisabled

\* C3: Loading is true exactly in the states where an edit request has been
\* sent and has not resolved yet, and false in every other state.
C3_Theorem == isLoading <=> (calls # <<>>)

C3_Witness ==
  /\ isLoading
  /\ lastEvent.kind \in {"readSucceeded", "readFailed", "upload"}
  /\ calls # <<>>

\* C4: when the request in flight succeeds with payload P, ResultImage
\* becomes data:<mediaType>;base64,P with the media type that was sent, and
\* Loading becomes false.
C4_Theorem ==
  [][lastEvent'.kind = "callSucceeded" =>
       /\ Len(calls) = 1
       /\ editedImage' = Some(<<"data:">> \o calls[1].mediaType
                                \o <<";base64", ",">> \o lastEvent'.arg[1])
       /\ isLoading' = FALSE]_vars

C4_Witness ==
  /\ lastEvent = [kind |-> "callSucceeded", arg |-> Some(<<"abcd1234">>)]
  /\ editedImage = Some(<<"data:", "image/", "png", ";base64", ",", "abcd1234">>)
  /\ ~isLoading

\* C5: when the request in flight fails with message M, right after the
\* failure is handled Error is M, ResultImage is null and Loading is false.
C5_Theorem ==
  [][lastEvent'.kind = "callFailed" =>
       /\ error' = Some(lastEvent'.arg[1])
       /\ editedImage' = None
       /\ isLoading' = FALSE]_vars

C5_Witness ==
  /\ lastEvent = [kind |-> "callFailed", arg |-> Some("Quota exceeded")]
  /\ error = Some("Quota exceeded")
  /\ originalImage # None
  /\ originalImage[1].file.name = "pic.jpg"
  /\ reads # <<>>

\* C6: Generate invoked with no image stored sets Error to "Please upload an
\* image first.", sends nothing, leaves Loading false and changes nothing
\* else.
C6_Theorem ==
  [][GenerateInvoked /\ originalImage = None =>
       /\ error' = Some("Please upload an image first.")
       /\ isLoading' = FALSE
       /\ UNCHANGED <<originalImage, editedImage, prompt, isLoading, reads, calls>>]_vars

C6_Witness ==
  /\ lastEvent.kind = "generate"
  /\ originalImage = None
  /\ error = Some("Please upload an image first.")
  /\ prompt = <<"a">>

\* C7: Generate invoked with an image stored and a prompt that is empty or
\* all whitespace sets Error to "Please enter an editing prompt.", sends
\* nothing, leaves Loading false and changes nothing else.
C7_Theorem ==
  [][GenerateInvoked /\ originalImage # None /\ AllWhitespace(prompt) =>
       /\ error' = Some("Please enter an editing prompt.")
       /\ isLoading' = FALSE
       /\ UNCHANGED <<originalImage, editedImage, prompt, isLoading, reads, calls>>]_vars

C7_Witness ==
  /\ lastEvent.kind = "generate"
  /\ error = Some("Please enter an editing prompt.")
  /\ prompt = <<" ", " ">>
  /\ editedImage # None

\* the declared type of the selected file begins with image/
DeclaredImage(sel) == Len(sel[1].type) >= 1 /\ sel[1].type[1] = "image/"

\* C8: an upload of a file whose declared type does not start with image/
\* starts no read, sets Error to "Please select a valid image file." and
\* changes nothing else.
C8_Theorem ==
  [][UploadInvoked /\ lastEvent'.arg # None /\ ~DeclaredImage(lastEvent'.arg) =>
       /\ error' = Some("Please select a valid image file.")
       /\ UNCHANGED <<originalImage, editedImage, prompt, isLoading, reads, calls>>]_vars

C8_Witness ==
  /\ lastEvent.kind = "upload"
  /\ lastEvent.arg # None
  /\ lastEvent.arg[1].name = "notes.txt"
  /\ error = Some("Please select a valid image file.")
  /\ originalImage # None
  /\ editedImage # None

\* C9: an upload whose read succeeds stores the new file with its base64
\* payload as SelectedImage and sets ResultImage and Error to null.
C9_Theorem ==
  [][lastEvent'.kind = "readSucceeded" =>
       /\ originalImage' = Some([file |-> lastEvent'.arg[1],
                                 base64 |-> lastEvent'.arg[1].bytes64])
       /\ editedImage' = None
       /\ error' = None]_vars

C9_Witness ==
  /\ lastEvent.kind = "readSucceeded"
  /\ lastEvent.arg[1].name = "pic.jpg"
  /\ originalImage = Some([file |-> lastEvent.arg[1], base64 |-> <<"/9j/">>])
  /\ isLoading
  /\ calls[1].mediaType = <<"image/", "png">>

\* C10: when the read of an image file fails, Error becomes "Failed to read
\* the image file.", the read is gone and not started again, and nothing
\* else changes.
C10_Theorem ==
  [][lastEvent'.kind = "readFailed" =>
       /\ error' = Some("Failed to read the image file.")
       /\ Len(reads') = Len(reads) - 1
       /\ UNCHANGED <<originalImage, editedImage, prompt, isLoading, calls>>]_vars

C10_Witness ==
  /\ lastEvent.kind = "readFailed"
  /\ error = Some("Failed to read the image file.")
  /\ reads = <<>>
  /\ originalImage # None
  /\ editedImage # None

\* C11 as stated: ResultImage is non-null only in states where Loading is
\* false, Error is null and the request sent last succeeded.
C11_AsStated ==
  editedImage # None =>
    /\ ~isLoading
    /\ error = None
    /\ lastRequest = "succeeded"

\* C11 amended: ResultImage is non-null only in states where Loading is false
\* and the request sent last succeeded; Error may be non-null in such a
\* state.
C11_Theorem ==
  editedImage # None =>
    /\ ~isLoading
    /\ lastRequest = "succeeded"

C11_Witness ==
  /\ editedImage # None
  /\ error = Some("Please select a valid image file.")
  /\ lastRequest = "succeeded"
  /\ ~isLoading

EntersLoading == ~isLoading /\ isLoading'
EntersError == error = None /\ error' # None

\* C12 as stated: Loading and Error never hold together, and every step
\* that enters Loading or enters Error leaves ResultImage null.
C12_AsStated ==
  [][/\ ~(isLoading' /\ error' # None)
     /\ EntersLoading => editedImage' = None
     /\ EntersError => editedImage' = None]_vars

\* C12 amended: every step that enters Loading leaves Error null and
\* ResultImage null, and Error entered by the failure of the request leaves
\* ResultImage null; Error entered by a rejected upload, a failed read or a
\* precondition-failing Generate leaves ResultImage as it was, and Loading
\* stays as it was.
C12_Theorem ==
  [][/\ EntersLoading => (error' = None /\ editedImage' = None)
     /\ (EntersError /\ lastEvent'.kind = "callFailed") => editedImage' = None
     /\ (EntersError /\ lastEvent'.kind # "callFailed") =>
          (editedImage' = editedImage /\ isLoading' = isLoading)]_vars

C12_Witness ==
  /\ isLoading
  /\ error = Some("Failed to read the image file.")
  /\ lastEvent.kind = "readFailed"
  /\ editedImage = None

\* the request in flight was sent for an image that has been replaced since
StaleRequest ==
  /\ Len(calls) = 1
  /\ originalImage # None
  /\ <<calls[1].base64, calls[1].mediaType>> #
       <<originalImage[1].base64, originalImage[1].file.type>>

\* C13: when an upload has replaced the image while a request was in flight,
\* the resolution of that request sets neither ResultImage nor Error.
C13_AsStated ==
  [][(lastEvent'.kind \in {"callSucceeded", "callFailed"} /\ StaleRequest) =>
       UNCHANGED <<editedImage, error>>]_vars

\* C14 as stated: after a successful upload completes, Loading is false,
\* Error is null and ResultImage is null, and the request in flight stays.
C14_AsStated ==
  [][lastEvent'.kind = "readSucceeded" =>
       /\ isLoading' = FALSE
       /\ error' = None
       /\ editedImage' = None
       /\ calls' = calls]_vars

\* C14 amended: after a successful upload completes, Error is null and
\* ResultImage is null, Loading is what it was before (still true when a
\* request is in flight), and the request in flight stays.
C14_Theorem ==
  [][lastEvent'.kind = "readSucceeded" =>
       /\ isLoading' = isLoading
       /\ error' = None
       /\ editedImage' = None
       /\ calls' = calls]_vars

C14_Witness ==
  /\ lastEvent.kind = "readSucceeded"
  /\ isLoading
  /\ lastRequest = "pending"
  /\ Len(calls) = 1
  /\ error = None
  /\ editedImage = None
  /\ originalImage[1].file.name = "photo.png"

\* C15: when every request and every read settles, every Loading state is
\* followed by a state with Loading false, and every state with an image
\* stored is followed by a state where Generate is enabled, whatever error
\* is shown.
C15_Theorem ==
  /\ isLoading ~> ~isLoading
  /\ (originalImage # None) ~> ~GenerateDisabled
  /\ \A msg \in {"Please select a valid image file.",
                 "Failed to read the image file.",
                 "Quota exceeded"} :
       (originalImage # None /\ error = Some(msg)) ~> ~GenerateDisabled

C15_Witness ==
  /\ lastEvent.kind = "callFailed"
  /\ error = Some("Quota exceeded")
  /\ ~isLoading
  /\ ~GenerateDisabled
  /\ reads = <<>>

\* C16: when a read succeeds while another read is pending and that other
\* read then succeeds too, SelectedImage is afterwards the file the user
\* chose last.
C16_AsStated ==
  [][(/\ lastEvent.kind = "readSucceeded"
      /\ Len(reads) = 1
      /\ lastEvent'.kind = "readSucceeded"
      /\ reads' = <<>>) =>
       originalImage'[1].file = lastPicked[1]]_vars

\* C17: the prompt input is disabled while Loading, no step changes
\* PromptText while Loading, and at the resolution of the request PromptText
\* is the prompt that was sent with it.
C17_Theorem ==
  [][/\ isLoading => (PromptDisabled /\ prompt' = prompt)
     /\ lastEvent'.kind \in {"callSucceeded", "callFailed"} =>
          /\ Len(calls) = 1
          /\ prompt = calls[1].prompt
          /\ prompt' = calls[1].prompt]_vars

C17_Witness ==
  /\ lastEvent.kind = "callSucceeded"
  /\ prompt = <<" ", "a">>
  /\ lastRequest = "succeeded"
  /\ originalImage[1].file.name = "pic.jpg"
  /\ editedImage = Some(<<"data:", "image/", "png", ";base64", ",", "AAAA">>)

\* C18: once an image is stored, every later state has an image stored and
\* Error is never "Please upload an image first.".
C18_Theorem ==
  [][/\ originalImage # None => originalImage' # None
     /\ originalImage' # None => error' # Some("Please upload an image first.")]_vars

C18_Witness ==
  /\ originalImage # None
  /\ lastEvent = [kind |-> "upload", arg |-> None]
  /\ error = Some("Please select a valid image file.")
  /\ lastRequest = "failed"
  /\ lastPicked # None
  /\ lastPicked[1] # originalImage[1].file

====
